---- MODULE Spec2Model ----
(***************************************************************************)
(* Model of the prediction-and-state service: backend/app.py (Flask        *)
(* routes, model selection, sensor snapshot) and backend/weather_service.py *)
(* (WeatherService with its temperature cache).                             *)
(*                                                                          *)
(* Units: temperatures are hundredths of a degree Celsius, times are        *)
(* seconds, power and predictions are thousandths of a kW.  The forecast    *)
(* formula of app.py and its copy in streamlit_app.py are also modelled in  *)
(* rounded float arithmetic, in units of 1/Unit kW.                         *)
(* A request handler runs on a thread; a handler that waits for the         *)
(* weather provider is a sequence of steps, one per access to the shared    *)
(* state, so that the clock can advance while a fetch is in flight.         *)
(***************************************************************************)
EXTENDS Integers, Sequences, FiniteSets, TLC

VARIABLES phase, artifacts, trained_model, model_type, api_key, city,
          cached_data, last_fetch, cache_city, sensor_data, now, th,
          last_update, val_stamp, calc, dash

vars == <<phase, artifacts, trained_model, model_type, api_key, city,
          cached_data, last_fetch, cache_city, sensor_data, now, th,
          last_update, val_stamp, calc, dash>>

(* cache_city, last_update and val_stamp are history variables: the city   *)
(* the cached value was fetched for, the body of the latest /sensor_update, *)
(* and the clock read of the call that wrote the cached value.  calc holds  *)
(* the inputs and results of the forecast formulas taken as pure functions, *)
(* dash the values of one run of the dashboard script.                      *)

----------------------------------------------------------------------------
(* Bounds *)

NumThreads == 2
StartTime == 1000
TickStep == 100
MaxTicks == 3

(* Program constants *)

cache_timeout == 300
DefaultTemp == 2200

----------------------------------------------------------------------------
(* Python values that may be None, a number, or a non-numeric string *)

VNone == [k |-> "none", v |-> 0]
VStr == [k |-> "str", v |-> 0]

VNum(n) == [k |-> "num", v |-> n]

IsNum(x) == x.k = "num"

Truthy(x) == CASE x.k = "none" -> FALSE
               [] x.k = "num" -> x.v # 0
               [] OTHER -> TRUE

----------------------------------------------------------------------------
(* Strings that matter only through their whitespace: a sequence of tokens, *)
(* " " standing for a whitespace character.                                 *)

(* mutant: the city is taken as sent, whitespace included *)
Strip_Identity(s) == s

RECURSIVE LStrip(_)
LStrip(s) == IF s # <<>> /\ Head(s) = " " THEN LStrip(Tail(s)) ELSE s

RECURSIVE RStrip(_)
RStrip(s) == IF s # <<>> /\ s[Len(s)] = " "
             THEN RStrip(SubSeq(s, 1, Len(s) - 1)) ELSE s

Strip(s) == RStrip(LStrip(s))

DefaultCity == <<"Darbhanga">>

CityStrings == {<<>>, <<" ">>, <<"Paris">>, <<" ", "Paris", " ">>, <<"Darbhanga">>}

CityBodies == {[present |-> FALSE, s |-> <<>>]}
              \cup {[present |-> TRUE, s |-> x] : x \in CityStrings}

----------------------------------------------------------------------------
(* What the weather provider can answer to one GET: an exception of        *)
(* requests.get / raise_for_status / response.json, or a JSON body with or  *)
(* without main.temp (a number or not), the weather list and the name.      *)

ProviderTemps == {0, 3026}

Responses == {[kind |-> "exc", temp |-> VNone, weather |-> FALSE, name |-> FALSE]}
             \cup {[kind |-> "body", temp |-> m, weather |-> w, name |-> n] :
                     m \in {VNone, VStr} \cup {VNum(x) : x \in ProviderTemps},
                     w \in BOOLEAN, n \in BOOLEAN}

----------------------------------------------------------------------------
(* Threads *)

Threads == 1..NumThreads

NoRet == [kind |-> "none"]

Idle == [pc |-> "idle", op |-> "none", caller |-> "none", current_time |-> 0,
         q |-> <<>>, temp_celsius |-> VNone, temperature |-> VNone,
         fetches |-> 0, pre |-> NoRet, outcome |-> "none",
         body |-> NoRet, status |-> 0, ret |-> NoRet]

(* the shared state as a handler finds it on entry *)
Pre == [city |-> city, cached_data |-> cached_data, last_fetch |-> last_fetch,
        cache_city |-> cache_city, sensor_data |-> sensor_data]

(* return value of get_current_temperature handed to its caller *)
GT_Return(r, val, out) ==
    IF r.caller = "predict"
    THEN [r EXCEPT !.pc = "pr_l70", !.temperature = val, !.outcome = out]
    ELSE [r EXCEPT !.pc = "ret", !.status = 200, !.temperature = val, !.outcome = out,
                   !.ret = [kind |-> "temperature", temperature |-> val]]

----------------------------------------------------------------------------
(* Startup: module-level model loading of app.py *)

ArtifactStates == {"absent", "corrupt", "ok"}

(* app.py lines 87-92 *)
InitialSnapshot == [occupancy |-> VNum(0), power_kW |-> VNone,
                    temperature |-> VNone, timestamp |-> VNone]

NoCalc == [done |-> FALSE, hour |-> 0, temperature |-> 0, occupancy |-> 0,
           is_weekend |-> 0, backend |-> 0, backend_weekday |-> 0,
           backend_weekend |-> 0, dashboard |-> 0]

(* the dashboard script before a run *)
NoDash == [pc |-> "start", current_usage |-> 0, pred_usage |-> 0,
           source |-> "none", buffer_kW |-> 0, max_allowed |-> 0, delta |-> 0]

(* mutant: the loop stops at the first artifact that exists, loadable or not *)
LoadModel_FirstExisting(a) ==
    IF a["real"] # "absent" THEN (IF a["real"] = "ok" THEN "real" ELSE "none")
    ELSE IF a["synthetic"] = "ok" THEN "synthetic"
    ELSE "none"

LoadModel(a) == IF a["real"] = "ok" THEN "real"
                ELSE IF a["synthetic"] = "ok" THEN "synthetic"
                ELSE "none"

ModelTag(m) == IF m = "none" THEN "rule-based" ELSE m

Init ==
    /\ phase = "boot"
    /\ artifacts \in [{"real", "synthetic"} -> ArtifactStates]
    /\ trained_model = "none"
    /\ model_type = "rule-based"
    /\ api_key \in BOOLEAN
    /\ city = DefaultCity
    /\ cached_data = VNone
    /\ last_fetch = 0
    /\ cache_city = <<>>
    /\ sensor_data = InitialSnapshot
    /\ now = StartTime
    /\ th = [t \in Threads |-> Idle]
    /\ last_update = NoRet
    /\ val_stamp = 0
    /\ calc = NoCalc
    /\ dash = NoDash

Startup ==
    /\ phase = "boot"
    /\ trained_model' = LoadModel(artifacts)
    /\ model_type' = ModelTag(LoadModel(artifacts))
    /\ phase' = "serving"
    /\ UNCHANGED <<artifacts, api_key, city, cached_data, last_fetch,
                   cache_city, sensor_data, now, th,
                   last_update, val_stamp, calc, dash>>

Tick ==
    /\ now + TickStep <= StartTime + MaxTicks * TickStep
    /\ now' = now + TickStep
    /\ UNCHANGED <<phase, artifacts, trained_model, model_type, api_key, city,
                   cached_data, last_fetch, cache_city, sensor_data, th,
                   last_update, val_stamp, calc, dash>>

----------------------------------------------------------------------------
(* WeatherService.get_current_temperature *)

(* mutant: the age test lets an entry of exactly cache_timeout seconds pass *)
CacheFresh_Inclusive(ct, lf) == (ct - lf) <= cache_timeout

CacheFresh(ct, lf) == (ct - lf) < cache_timeout

(* mutant: the credential check is skipped *)
GT_Enter_NoKeyCheck(r) == [r EXCEPT !.pc = "gt_l31a", !.current_time = now]

(* lines 24-28: the credential check and the clock read *)
GT_Enter(r) ==
    IF ~api_key
    THEN GT_Return(r, VNum(DefaultTemp), "nokey")
    ELSE [r EXCEPT !.pc = "gt_l31a", !.current_time = now]

GetTemperature(t) ==
    /\ phase = "serving"
    /\ th[t].pc = "idle"
    /\ th' = [th EXCEPT ![t] =
                GT_Enter([Idle EXCEPT !.op = "get_temperature", !.caller = "direct",
                                      !.pre = Pre])]
    /\ UNCHANGED <<phase, artifacts, trained_model, model_type, api_key, city,
                   cached_data, last_fetch, cache_city, sensor_data, now,
                   last_update, val_stamp, calc, dash>>

(* line 31, left operand: self._cached_data *)
GT_L31a(t) ==
    /\ th[t].pc = "gt_l31a"
    /\ th' = [th EXCEPT ![t].pc = IF Truthy(cached_data) THEN "gt_l31b" ELSE "gt_fetch"]
    /\ UNCHANGED <<phase, artifacts, trained_model, model_type, api_key, city,
                   cached_data, last_fetch, cache_city, sensor_data, now,
                   last_update, val_stamp, calc, dash>>

(* line 31, right operand: age of self._last_fetch *)
GT_L31b(t) ==
    /\ th[t].pc = "gt_l31b"
    /\ th' = [th EXCEPT ![t].pc = IF CacheFresh(th[t].current_time, last_fetch)
                                  THEN "gt_l32" ELSE "gt_fetch"]
    /\ UNCHANGED <<phase, artifacts, trained_model, model_type, api_key, city,
                   cached_data, last_fetch, cache_city, sensor_data, now,
                   last_update, val_stamp, calc, dash>>

(* line 32: return self._cached_data *)
GT_L32(t) ==
    /\ th[t].pc = "gt_l32"
    /\ th' = [th EXCEPT ![t] = GT_Return(th[t], cached_data, "cached")]
    /\ UNCHANGED <<phase, artifacts, trained_model, model_type, api_key, city,
                   cached_data, last_fetch, cache_city, sensor_data, now,
                   last_update, val_stamp, calc, dash>>

(* lines 35-41: params read self.city, requests.get is sent *)
GT_Fetch(t) ==
    /\ th[t].pc = "gt_fetch"
    /\ th' = [th EXCEPT ![t].pc = "gt_wait", ![t].q = city,
                        ![t].fetches = th[t].fetches + 1]
    /\ UNCHANGED <<phase, artifacts, trained_model, model_type, api_key, city,
                   cached_data, last_fetch, cache_city, sensor_data, now,
                   last_update, val_stamp, calc, dash>>

(* lines 41-47 and 53-62: the answer arrives *)
GT_Recv(t) ==
    /\ th[t].pc = "gt_wait"
    /\ \E resp \in Responses :
         th' = [th EXCEPT ![t] =
                  IF resp.kind = "exc"
                  THEN GT_Return(th[t], VNum(DefaultTemp), "exc")
                  ELSE IF resp.temp = VNone
                  THEN GT_Return(th[t], VNum(DefaultTemp), "nofield")
                  ELSE [th[t] EXCEPT !.pc = "gt_l48", !.temp_celsius = resp.temp]]
    /\ UNCHANGED <<phase, artifacts, trained_model, model_type, api_key, city,
                   cached_data, last_fetch, cache_city, sensor_data, now,
                   last_update, val_stamp, calc, dash>>

(* line 48: self._cached_data = temp_celsius *)
GT_L48(t) ==
    /\ th[t].pc = "gt_l48"
    /\ cached_data' = th[t].temp_celsius
    /\ cache_city' = th[t].q
    /\ val_stamp' = th[t].current_time
    /\ th' = [th EXCEPT ![t].pc = "gt_l49"]
    /\ UNCHANGED <<phase, artifacts, trained_model, model_type, api_key, city,
                   last_fetch, sensor_data, now,
                   last_update, calc, dash>>

(* mutant: the call returns the shared cache entry instead of its own value *)
GT_L49_ReturnShared(t) ==
    /\ th[t].pc = "gt_l49"
    /\ last_fetch' = th[t].current_time
    /\ th' = [th EXCEPT ![t] =
                IF IsNum(th[t].temp_celsius)
                THEN GT_Return(th[t], cached_data, "fetched")
                ELSE GT_Return(th[t], VNum(DefaultTemp), "badtemp")]
    /\ UNCHANGED <<phase, artifacts, trained_model, model_type, api_key, city,
                   cached_data, cache_city, sensor_data, now,
                   last_update, val_stamp, calc, dash>>

(* mutant: the entry is stamped with the clock at the time of the write *)
GT_L49_StampNow(t) ==
    /\ th[t].pc = "gt_l49"
    /\ last_fetch' = now
    /\ th' = [th EXCEPT ![t] =
                IF IsNum(th[t].temp_celsius)
                THEN GT_Return(th[t], th[t].temp_celsius, "fetched")
                ELSE GT_Return(th[t], VNum(DefaultTemp), "badtemp")]
    /\ UNCHANGED <<phase, artifacts, trained_model, model_type, api_key, city,
                   cached_data, cache_city, sensor_data, now,
                   last_update, val_stamp, calc, dash>>

(* lines 49-52 and 60-62: self._last_fetch = current_time, then the print  *)
(* formats temp_celsius with :.1f, which raises for a non-number and lands  *)
(* in except Exception                                                      *)
GT_L49(t) ==
    /\ th[t].pc = "gt_l49"
    /\ last_fetch' = th[t].current_time
    /\ th' = [th EXCEPT ![t] =
                IF IsNum(th[t].temp_celsius)
                THEN GT_Return(th[t], th[t].temp_celsius, "fetched")
                ELSE GT_Return(th[t], VNum(DefaultTemp), "badtemp")]
    /\ UNCHANGED <<phase, artifacts, trained_model, model_type, api_key, city,
                   cached_data, cache_city, sensor_data, now,
                   last_update, val_stamp, calc, dash>>

----------------------------------------------------------------------------
(* WeatherService.get_weather_info, served by GET /weather *)

DefaultReading ==
    [kind |-> "reading", temperature |-> VNum(DefaultTemp), description |-> "Clear",
     city |-> [src |-> "config", s |-> city], error |-> "No API key"]

FailureReading ==
    [kind |-> "reading", temperature |-> VNum(DefaultTemp), description |-> "Unknown",
     city |-> [src |-> "config", s |-> city], error |-> "exception"]

(* lines 86-93: the reading built from a body; a missing key raises *)
ReadingOf(resp, qc) ==
    IF resp.kind = "exc" \/ resp.temp = VNone \/ ~resp.weather
    THEN FailureReading
    ELSE [kind |-> "reading", temperature |-> resp.temp, description |-> "Provider",
          city |-> IF resp.name THEN [src |-> "provider", s |-> qc]
                   ELSE [src |-> "config", s |-> city],
          error |-> "null"]

(* mutant: the full reading is served from the temperature cache while fresh *)
GetWeather_Cached(t) ==
    /\ phase = "serving"
    /\ th[t].pc = "idle"
    /\ th' = [th EXCEPT ![t] =
                IF ~api_key
                THEN [Idle EXCEPT !.op = "get_weather_info", !.pc = "ret", !.status = 200,
                                  !.pre = Pre, !.outcome = "nokey", !.ret = DefaultReading]
                ELSE IF Truthy(cached_data) /\ CacheFresh(now, last_fetch)
                THEN [Idle EXCEPT !.op = "get_weather_info", !.pc = "ret", !.status = 200,
                                  !.pre = Pre, !.outcome = "cached",
                                  !.ret = [kind |-> "reading", temperature |-> cached_data,
                                           description |-> "Provider",
                                           city |-> [src |-> "config", s |-> city],
                                           error |-> "null"]]
                ELSE [Idle EXCEPT !.op = "get_weather_info", !.pc = "gwi_wait",
                                  !.q = city, !.fetches = 1, !.pre = Pre]]
    /\ UNCHANGED <<phase, artifacts, trained_model, model_type, api_key, city,
                   cached_data, last_fetch, cache_city, sensor_data, now,
                   last_update, val_stamp, calc, dash>>

(* lines 66-81: the credential check, then params read self.city and the GET is sent *)
GetWeather(t) ==
    /\ phase = "serving"
    /\ th[t].pc = "idle"
    /\ th' = [th EXCEPT ![t] =
                IF ~api_key
                THEN [Idle EXCEPT !.op = "get_weather_info", !.pc = "ret", !.status = 200,
                                  !.pre = Pre, !.outcome = "nokey", !.ret = DefaultReading]
                ELSE [Idle EXCEPT !.op = "get_weather_info", !.pc = "gwi_wait",
                                  !.q = city, !.fetches = 1, !.pre = Pre]]
    /\ UNCHANGED <<phase, artifacts, trained_model, model_type, api_key, city,
                   cached_data, last_fetch, cache_city, sensor_data, now,
                   last_update, val_stamp, calc, dash>>

(* lines 81-101: the answer arrives *)
GWI_Recv(t) ==
    /\ th[t].pc = "gwi_wait"
    /\ \E resp \in Responses :
         th' = [th EXCEPT ![t].pc = "ret", ![t].status = 200,
                          ![t].outcome = IF resp.kind = "exc" THEN "exc"
                                         ELSE IF resp.temp = VNone \/ ~resp.weather THEN "nofield"
                                         ELSE IF IsNum(resp.temp) THEN "fetched"
                                         ELSE "badtemp",
                          ![t].ret = ReadingOf(resp, th[t].q)]
    /\ UNCHANGED <<phase, artifacts, trained_model, model_type, api_key, city,
                   cached_data, last_fetch, cache_city, sensor_data, now,
                   last_update, val_stamp, calc, dash>>

----------------------------------------------------------------------------
(* POST /set_city *)

SetCity(t) ==
    /\ phase = "serving"
    /\ th[t].pc = "idle"
    /\ \E b \in CityBodies :
         LET c == Strip(IF b.present THEN b.s ELSE <<>>) IN
         IF c = <<>>
         THEN /\ th' = [th EXCEPT ![t] =
                          [Idle EXCEPT !.op = "set_city", !.pc = "ret", !.status = 400,
                                       !.body = [kind |-> "city", present |-> b.present, s |-> b.s],
                                       !.pre = Pre,
                                       !.ret = [kind |-> "error", error |-> "city is required"]]]
              /\ city' = city
         ELSE /\ th' = [th EXCEPT ![t] =
                          [Idle EXCEPT !.op = "set_city", !.pc = "ret", !.status = 200,
                                       !.body = [kind |-> "city", present |-> b.present, s |-> b.s],
                                       !.pre = Pre,
                                       !.ret = [kind |-> "city", status |-> "ok", city |-> c]]]
              /\ city' = c
    /\ UNCHANGED <<phase, artifacts, trained_model, model_type, api_key,
                   cached_data, last_fetch, cache_city, sensor_data, now,
                   last_update, val_stamp, calc, dash>>

----------------------------------------------------------------------------
(* The sensor snapshot: POST /sensor_update and GET /current_status *)

SensorBodies ==
    { [occupancy |-> VNum(150), power_kW |-> VNum(300000),
       temperature |-> VNum(2200), timestamp |-> VStr],
      [power_kW |-> VNum(50000)],
      [occupancy |-> VNum(10), power_kW |-> VNum(0), temperature |-> VNone],
      [occupancy |-> VNum(10), power_kW |-> VNum(-5000)],
      [occupancy |-> VNum(10), power_kW |-> VStr] }

(* mutant: the held snapshot is overwritten in place, one field per step *)
SensorUpdate_InPlace(t) ==
    /\ phase = "serving"
    /\ \/ /\ th[t].pc = "idle"
          /\ \E b \in SensorBodies :
               /\ last_update' = b
               /\ th' = [th EXCEPT ![t] =
                           [Idle EXCEPT !.op = "sensor_update", !.pc = "su_write",
                                        !.pre = Pre,
                                        !.body = [kind |-> "snapshot", snapshot |-> b]]]
          /\ sensor_data' = sensor_data
       \/ /\ th[t].pc = "su_write"
          /\ last_update' = last_update
          /\ LET b == th[t].body.snapshot
                 todo == {f \in DOMAIN b : f \notin DOMAIN sensor_data
                                           \/ sensor_data[f] # b[f]} IN
             IF todo # {}
             THEN /\ \E f \in todo :
                       sensor_data' = [g \in DOMAIN sensor_data \cup {f} |->
                                         IF g = f THEN b[f] ELSE sensor_data[g]]
                  /\ th' = th
             ELSE /\ sensor_data' = sensor_data
                  /\ th' = [th EXCEPT ![t].pc = "ret", ![t].status = 200,
                                      ![t].ret = [kind |-> "status", status |-> "ok"]]
    /\ UNCHANGED <<phase, artifacts, trained_model, model_type, api_key, city,
                   cached_data, last_fetch, cache_city, now,
                   val_stamp, calc, dash>>

(* mutant: the body is merged into the held snapshot (dict.update) *)
SensorUpdate_Merge(t) ==
    /\ phase = "serving"
    /\ th[t].pc = "idle"
    /\ \E b \in SensorBodies :
         /\ sensor_data' = [f \in DOMAIN b \cup DOMAIN sensor_data |->
                              IF f \in DOMAIN b THEN b[f] ELSE sensor_data[f]]
         /\ last_update' = b
         /\ th' = [th EXCEPT ![t] =
                     [Idle EXCEPT !.op = "sensor_update", !.pc = "ret", !.status = 200,
                                  !.pre = Pre,
                                  !.body = [kind |-> "snapshot", snapshot |-> b],
                                  !.ret = [kind |-> "status", status |-> "ok"]]]
    /\ UNCHANGED <<phase, artifacts, trained_model, model_type, api_key, city,
                   cached_data, last_fetch, cache_city, now,
                   val_stamp, calc, dash>>

SensorUpdate(t) ==
    /\ phase = "serving"
    /\ th[t].pc = "idle"
    /\ \E b \in SensorBodies :
         /\ sensor_data' = b
         /\ last_update' = b
         /\ th' = [th EXCEPT ![t] =
                     [Idle EXCEPT !.op = "sensor_update", !.pc = "ret", !.status = 200,
                                  !.pre = Pre,
                                  !.body = [kind |-> "snapshot", snapshot |-> b],
                                  !.ret = [kind |-> "status", status |-> "ok"]]]
    /\ UNCHANGED <<phase, artifacts, trained_model, model_type, api_key, city,
                   cached_data, last_fetch, cache_city, now,
                   val_stamp, calc, dash>>

CurrentStatus(t) ==
    /\ phase = "serving"
    /\ th[t].pc = "idle"
    /\ th' = [th EXCEPT ![t] =
                [Idle EXCEPT !.op = "current_status", !.pc = "ret", !.status = 200,
                             !.pre = Pre,
                             !.ret = [kind |-> "snapshot", snapshot |-> sensor_data]]]
    /\ UNCHANGED <<phase, artifacts, trained_model, model_type, api_key, city,
                   cached_data, last_fetch, cache_city, sensor_data, now,
                   last_update, val_stamp, calc, dash>>

----------------------------------------------------------------------------
(* POST /predict *)

(* 10000 * sin(k * 15 degrees), k = 0..6, to the nearest unit *)
SinQ == <<0, 2588, 5000, 7071, 8660, 9659, 10000>>

Abs(x) == IF x < 0 THEN -x ELSE x

Max(a, b) == IF a >= b THEN a ELSE b

Min(a, b) == IF a <= b THEN a ELSE b

(* line 51: 10.0 * math.sin(2 * math.pi * (hour - 12.0) / 24.0), hour in 0..23 *)
HourComponent(hour) ==
    LET d == hour - 12
        a == Abs(d)
        m == IF a <= 6 THEN SinQ[a + 1] ELSE SinQ[12 - a + 1]
    IN IF d < 0 THEN -m ELSE m

(* lines 41-52 *)
rule_based_predict(hour, temperature, occupancy, is_weekend) ==
    200000 + 50 * temperature + 2000 * occupancy
    + 20000 * (IF is_weekend # 0 THEN 1 ELSE 0) + HourComponent(hour)

(* round(x, n): x to the nearest multiple of unit *)
Round(x, unit) == ((2 * x + unit) \div (2 * unit)) * unit

(* what the loaded regression model may answer *)
RawPredictions == {100000, 500000}

PredictHours == {6, 14}

PredictBodies ==
    [hour : {VNone} \cup {VNum(h) : h \in PredictHours},
     temperature : {VNone, VNum(0), VNum(2504)},
     occupancy : {VNone, VNum(150)},
     is_weekend : {VNone, VNum(0), VNum(1)}]

(* lines 57-68: the body is read; a missing required key raises KeyError, *)
(* which Flask answers with 500; a missing temperature is resolved by      *)
(* get_current_temperature()                                                *)
Predict(t) ==
    /\ phase = "serving"
    /\ th[t].pc = "idle"
    /\ \E b \in PredictBodies :
         LET r == [Idle EXCEPT !.op = "predict", !.caller = "predict",
                               !.body = [kind |-> "predict", data |-> b],
                               !.pre = Pre] IN
         th' = [th EXCEPT ![t] =
                  IF b.hour = VNone \/ b.occupancy = VNone \/ b.is_weekend = VNone
                  THEN [r EXCEPT !.pc = "ret", !.status = 500,
                                 !.ret = [kind |-> "error", error |-> "KeyError"]]
                  ELSE IF b.temperature = VNone
                  THEN GT_Enter(r)
                  ELSE [r EXCEPT !.pc = "pr_l70", !.temperature = b.temperature,
                                 !.outcome = "supplied"]]
    /\ UNCHANGED <<phase, artifacts, trained_model, model_type, api_key, city,
                   cached_data, last_fetch, cache_city, sensor_data, now,
                   last_update, val_stamp, calc, dash>>

(* mutant: the response always reports the rule-based tag *)
PR_L70_RuleBasedTag(t) ==
    /\ th[t].pc = "pr_l70"
    /\ LET b == th[t].body.data
           temp == th[t].temperature IN
       IF ~IsNum(temp)
       THEN th' = [th EXCEPT ![t].pc = "ret", ![t].status = 500,
                             ![t].ret = [kind |-> "error", error |-> "ValueError"]]
       ELSE \E pred \in IF trained_model # "none" THEN RawPredictions
                        ELSE {rule_based_predict(b.hour.v, temp.v, b.occupancy.v,
                                                 b.is_weekend.v)} :
              th' = [th EXCEPT ![t].pc = "ret", ![t].status = 200,
                               ![t].ret = [kind |-> "forecast",
                                           predicted_usage_kW |-> Round(pred, 10),
                                           model_type |-> "rule-based",
                                           temperature_used |-> Round(temp.v, 10)]]
    /\ UNCHANGED <<phase, artifacts, trained_model, model_type, api_key, city,
                   cached_data, last_fetch, cache_city, sensor_data, now,
                   last_update, val_stamp, calc, dash>>

(* lines 70-84: the selected variant predicts and the response is built;   *)
(* a temperature that is not a number makes float() raise, answered by 500  *)
PR_L70(t) ==
    /\ th[t].pc = "pr_l70"
    /\ LET b == th[t].body.data
           temp == th[t].temperature IN
       IF ~IsNum(temp)
       THEN th' = [th EXCEPT ![t].pc = "ret", ![t].status = 500,
                             ![t].ret = [kind |-> "error", error |-> "ValueError"]]
       ELSE \E pred \in IF trained_model # "none" THEN RawPredictions
                        ELSE {rule_based_predict(b.hour.v, temp.v, b.occupancy.v,
                                                 b.is_weekend.v)} :
              th' = [th EXCEPT ![t].pc = "ret", ![t].status = 200,
                               ![t].ret = [kind |-> "forecast",
                                           predicted_usage_kW |-> Round(pred, 10),
                                           model_type |-> model_type,
                                           temperature_used |-> Round(temp.v, 10)]]
    /\ UNCHANGED <<phase, artifacts, trained_model, model_type, api_key, city,
                   cached_data, last_fetch, cache_city, sensor_data, now,
                   last_update, val_stamp, calc, dash>>

----------------------------------------------------------------------------
(* The response leaves the server; the thread is free again *)
Return(t) ==
    /\ th[t].pc = "ret"
    /\ th' = [th EXCEPT ![t] = Idle]
    /\ UNCHANGED <<phase, artifacts, trained_model, model_type, api_key, city,
                   cached_data, last_fetch, cache_city, sensor_data, now,
                   last_update, val_stamp, calc, dash>>

Step(t) ==
    \/ GetTemperature(t)
    \/ GT_L31a(t)
    \/ GT_L31b(t)
    \/ GT_L32(t)
    \/ GT_Fetch(t)
    \/ GT_Recv(t)
    \/ GT_L48(t)
    \/ GT_L49(t)
    \/ GetWeather(t)
    \/ GWI_Recv(t)
    \/ SetCity(t)
    \/ SensorUpdate(t)
    \/ CurrentStatus(t)
    \/ Predict(t)
    \/ PR_L70(t)
    \/ Return(t)

(* Requests are served one at a time, on thread 1; the clock may advance   *)
(* between any two steps of a handler.                                      *)
Next ==
    \/ Startup
    \/ Tick
    \/ Step(1)

Spec == Init /\ [][Next]_vars

(* The snapshot routes served by all threads at once: a request may be     *)
(* answered while others are still in progress.                             *)
SensorStep(t) ==
    \/ SensorUpdate(t)
    \/ CurrentStatus(t)
    \/ Return(t)

SensorNext ==
    \/ Startup
    \/ \E t \in Threads : SensorStep(t)

SensorSpec == Init /\ [][SensorNext]_vars

----------------------------------------------------------------------------
(* The werkzeug development server handles every request on a thread of    *)
(* its own: get_current_temperature calls of several threads interleave    *)
(* statement by statement on the one WeatherService instance.              *)

WeatherStep(t) ==
    \/ GetTemperature(t)
    \/ GT_L31a(t)
    \/ GT_L31b(t)
    \/ GT_L32(t)
    \/ GT_Fetch(t)
    \/ GT_Recv(t)
    \/ GT_L48(t)
    \/ GT_L49(t)
    \/ Return(t)

WeatherNext ==
    \/ Startup
    \/ Tick
    \/ \E t \in Threads : WeatherStep(t)

(* the model artifacts play no part in the weather client *)
WeatherInit == Init /\ artifacts = [a \in {"real", "synthetic"} |-> "absent"]

WeatherSpec == WeatherInit /\ [][WeatherNext]_vars

----------------------------------------------------------------------------
(* One run of the dashboard script, streamlit_app.py: the live sensor      *)
(* status, the prediction, the dynamic safety buffer and the metrics.       *)
(* Power values are thousandths of a kW.                                    *)

(* lines 143-153: fetch_sensor(); any exception, a failed request or a     *)
(* field that float() or int() refuses, gives occupancy 0 and power 0.0    *)
fetch_sensor(reachable, data) ==
    LET power_kW == IF "power_kW" \in DOMAIN data THEN data.power_kW ELSE VNone
        occupancy == IF "occupancy" \in DOMAIN data THEN data.occupancy ELSE VNone
    IN IF ~reachable \/ power_kW.k = "str" \/ occupancy.k = "str" THEN 0
       ELSE IF Truthy(power_kW) THEN power_kW.v ELSE 0

(* line 280: max_allowed = max(current_usage - buffer_kW, 0.0) *)
MaxAllowed(current_usage, buffer_kW) == Max(current_usage - buffer_kW, 0)

(* line 279: max(10.0, min(60.0, round(0.15 * max(current_usage, 0.0), 1))) *)
BufferKW(current_usage) ==
    Max(10000, Min(60000, Round(15 * Max(current_usage, 0), 10000) \div 100))

(* what the dashboard sends to /predict or feeds the fallback with *)
DashTemperatures == {0, 2504}
DashOccupancies == {150}
DashWeekends == {0, 1}

(* sidebar: sensor = fetch_sensor(); the request fails while the service   *)
(* is not up, and may time out when it is                                   *)
FetchSensor ==
    /\ dash.pc = "start"
    /\ \E reachable \in IF phase = "serving" THEN BOOLEAN ELSE {FALSE} :
         dash' = [dash EXCEPT !.pc = "sensed",
                              !.current_usage = fetch_sensor(reachable, sensor_data)]
    /\ UNCHANGED <<phase, artifacts, trained_model, model_type, api_key, city,
                   cached_data, last_fetch, cache_city, sensor_data, now, th,
                   last_update, val_stamp, calc>>

(* lines 253-277: get_backend_prediction(); the answer of /predict, or the *)
(* client-side formula when the request fails                               *)
GetBackendPrediction ==
    /\ dash.pc = "sensed"
    /\ \E h \in PredictHours, tc \in DashTemperatures, o \in DashOccupancies,
          w \in DashWeekends :
         \/ /\ phase = "serving"
            /\ \E p \in IF trained_model # "none" THEN RawPredictions
                        ELSE {rule_based_predict(h, tc, o, w)} :
                 dash' = [dash EXCEPT !.pc = "predicted",
                                      !.pred_usage = Round(p, 10),
                                      !.source = model_type]
         \/ dash' = [dash EXCEPT !.pc = "predicted",
                                 !.pred_usage = rule_based_predict(h, tc, o, w),
                                 !.source = "fallback"]
    /\ UNCHANGED <<phase, artifacts, trained_model, model_type, api_key, city,
                   cached_data, last_fetch, cache_city, sensor_data, now, th,
                   last_update, val_stamp, calc>>

(* lines 279-307: the safety buffer caps the prediction, the metrics are   *)
(* shown                                                                    *)
Render ==
    /\ dash.pc = "predicted"
    /\ LET buffer_kW == BufferKW(dash.current_usage)
           max_allowed == MaxAllowed(dash.current_usage, buffer_kW)
           pred_usage == IF dash.pred_usage > max_allowed THEN max_allowed
                         ELSE dash.pred_usage
       IN dash' = [dash EXCEPT !.pc = "shown",
                               !.buffer_kW = buffer_kW,
                               !.max_allowed = max_allowed,
                               !.pred_usage = pred_usage,
                               !.delta = pred_usage - dash.current_usage]
    /\ UNCHANGED <<phase, artifacts, trained_model, model_type, api_key, city,
                   cached_data, last_fetch, cache_city, sensor_data, now, th,
                   last_update, val_stamp, calc>>

(* streamlit runs the script again *)
Rerun ==
    /\ dash.pc = "shown"
    /\ dash' = NoDash
    /\ UNCHANGED <<phase, artifacts, trained_model, model_type, api_key, city,
                   cached_data, last_fetch, cache_city, sensor_data, now, th,
                   last_update, val_stamp, calc>>

(* the sensor feed posts snapshots while the dashboard runs *)
DashNext ==
    \/ Startup
    \/ SensorUpdate(1)
    \/ Return(1)
    \/ FetchSensor
    \/ GetBackendPrediction
    \/ Render
    \/ Rerun

(* the weather credential plays no part in the dashboard's metrics *)
DashInit == Init /\ ~api_key

DashSpec == DashInit /\ [][DashNext]_vars

----------------------------------------------------------------------------
(* The forecast formulas as pure functions of Python floats.                *)
(*                                                                          *)
(* A float is an integer count of 1/Unit; every arithmetic result is        *)
(* rounded to MantissaBits significant bits, ties to even, as IEEE-754 does *)
(* with 53 bits.  The order of the additions is the order of the source.    *)

MantissaBits == 12
Unit == 16384

RECURSIVE Pow2(_)
Pow2(n) == IF n = 0 THEN 1 ELSE 2 * Pow2(n - 1)

(* spacing of the floats around a: the least power of two q with *)
(* a < q * 2^MantissaBits                                        *)
RECURSIVE QuantumFrom(_, _)
QuantumFrom(a, q) == IF a < q * Pow2(MantissaBits) THEN q ELSE QuantumFrom(a, 2 * q)
Quantum(x) == QuantumFrom(Abs(x), 1)

(* the float nearest to x, ties to even *)
FRound(x) ==
    LET q == Quantum(x)
        a == Abs(x)
        lo == (a \div q) * q
        r == a - lo
        m == IF 2 * r < q THEN lo
             ELSE IF 2 * r > q THEN lo + q
             ELSE IF (lo \div q) % 2 = 0 THEN lo ELSE lo + q
    IN IF x < 0 THEN -m ELSE m

FAdd(a, b) == FRound(a + b)
(* k * x for a float k with an integer value *)
FMul(k, x) == FRound(k * x)

(* float(n) of an integer *)
FloatOfInt(n) == FRound(n * Unit)
(* float(x) of a decimal given in hundredths *)
FloatOfHundredths(c) == FRound((2 * c * Unit + 100) \div 200)

(* Unit * sin(k * 15 degrees), k = 0..6, to the nearest 1/Unit *)
SinF == <<0, 4240, 8192, 11585, 14189, 15826, 16384>>

(* math.sin(2 * math.pi * (float(hour) - 12.0) / 24.0), hour in 0..23; the *)
(* sine of the float nearest pi is below every quantum reached and is 0    *)
FSin(hour) ==
    LET d == hour - 12
        a == Abs(d)
        m == FRound(IF a <= 6 THEN SinF[a + 1] ELSE SinF[12 - a + 1])
    IN IF d < 0 THEN -m ELSE m

(* mutant: the uplift is multiplied by is_weekend itself *)
rule_based_predict_float_RawWeekend(hour, temperature, occupancy, is_weekend) ==
    LET base == FloatOfInt(200)
        temp_component == FMul(5, FloatOfHundredths(temperature))
        occ_component == FMul(2, FloatOfInt(occupancy))
        weekend_component == FMul(20, FloatOfInt(is_weekend))
        hour_component == FMul(10, FSin(hour))
    IN FAdd(FAdd(FAdd(FAdd(base, temp_component), occ_component), weekend_component),
            hour_component)

(* app.py lines 41-52, in floats.  The service reports its result rounded *)
(* to two decimals, which the exact rule_based_predict above gives; the    *)
(* claims about the formula itself are settled on this one.                *)
rule_based_predict_float(hour, temperature, occupancy, is_weekend) ==
    LET base == FloatOfInt(200)
        temp_component == FMul(5, FloatOfHundredths(temperature))
        occ_component == FMul(2, FloatOfInt(occupancy))
        weekend_component == FMul(20, FloatOfInt(IF is_weekend # 0 THEN 1 ELSE 0))
        hour_component == FMul(10, FSin(hour))
    IN FAdd(FAdd(FAdd(FAdd(base, temp_component), occ_component), weekend_component),
            hour_component)

(* mutant: the dashboard centres the hour term on hour 0 *)
get_backend_prediction_fallback_Hour0(hour, temperature, occupancy, is_weekend) ==
    LET base == FloatOfInt(200)
        temp_component == FMul(5, FloatOfHundredths(temperature))
        occ_component == FMul(2, FloatOfInt(occupancy))
        weekend_component == FMul(20, FloatOfInt(IF is_weekend # 0 THEN 1 ELSE 0))
        hour_component == FMul(10, FSin((hour + 12) % 24))
        pred == FAdd(FAdd(FAdd(FAdd(base, temp_component), occ_component),
                          weekend_component), hour_component)
    IN FRound(pred)

(* streamlit_app.py lines 266-275: the except branch of                    *)
(* get_backend_prediction, returning float(pred)                           *)
get_backend_prediction_fallback(hour, temperature, occupancy, is_weekend) ==
    LET base == FloatOfInt(200)
        temp_component == FMul(5, FloatOfHundredths(temperature))
        occ_component == FMul(2, FloatOfInt(occupancy))
        weekend_component == FMul(20, FloatOfInt(IF is_weekend # 0 THEN 1 ELSE 0))
        hour_component == FMul(10, FSin(hour))
        pred == FAdd(FAdd(FAdd(FAdd(base, temp_component), occ_component),
                          weekend_component), hour_component)
    IN FRound(pred)

(* inputs of the formulas: temperature in hundredths of a degree *)
FnHours == 0..23
FnTemperatures == {-500, 0, 1783, 2200, 2504, 3026}
FnOccupancies == {0, 20, 150, 400}
FnWeekends == {0, 1, 2}

FnInit ==
    /\ phase = "boot"
    /\ artifacts = [a \in {"real", "synthetic"} |-> "absent"]
    /\ trained_model = "none"
    /\ model_type = "rule-based"
    /\ api_key = FALSE
    /\ city = DefaultCity
    /\ cached_data = VNone
    /\ last_fetch = 0
    /\ cache_city = <<>>
    /\ sensor_data = InitialSnapshot
    /\ now = StartTime
    /\ th = [t \in Threads |-> Idle]
    /\ last_update = NoRet
    /\ val_stamp = 0
    /\ dash = NoDash
    /\ \E h \in FnHours, tc \in FnTemperatures, o \in FnOccupancies, w \in FnWeekends :
         calc = [NoCalc EXCEPT !.hour = h, !.temperature = tc, !.occupancy = o,
                               !.is_weekend = w]

(* both formulas are applied to the same inputs *)
Compute ==
    /\ ~calc.done
    /\ calc' = [calc EXCEPT
           !.done = TRUE,
           !.backend = rule_based_predict_float(calc.hour, calc.temperature,
                                                calc.occupancy, calc.is_weekend),
           !.backend_weekday = rule_based_predict_float(calc.hour, calc.temperature,
                                                        calc.occupancy, 0),
           !.backend_weekend = rule_based_predict_float(calc.hour, calc.temperature,
                                                        calc.occupancy, 1),
           !.dashboard = get_backend_prediction_fallback(calc.hour, calc.temperature,
                                                         calc.occupancy, calc.is_weekend)]
    /\ UNCHANGED <<phase, artifacts, trained_model, model_type, api_key, city,
                   cached_data, last_fetch, cache_city, sensor_data, now, th,
                   last_update, val_stamp, dash>>

FnNext == Compute
FnSpec == FnInit /\ [][FnNext]_vars


----------------------------------------------------------------------------
(* Properties *)

Clamp(x, lo, hi) == Max(lo, Min(hi, x))

(* max(p - clamp(0.15 * p, 10, 60), 0), in thousandths of a kW *)
SafetyCeiling(p) == Max(p - Clamp((15 * p) \div 100, 10000, 60000), 0)

(* get_current_temperature has just returned on thread t, to the test      *)
(* harness or to predict; th[t].temperature is what it returned             *)
GTReturned(t) ==
    \/ th[t].op = "get_temperature" /\ th[t].pc = "ret"
    \/ th[t].op = "predict" /\ th[t].pc = "pr_l70" /\ th[t].outcome # "supplied"

Age(t) == th[t].current_time - th[t].pre.last_fetch

FailureOutcomes == {"exc", "nofield", "badtemp"}

(* C1: for every snapshot with current_power_kW >= 0, every answered       *)
(* /predict carries predicted_usage_kW <= max(power - clamp(0.15 * power,   *)
(* 10, 60), 0).                                                             *)
C1_SafetyCap ==
    \A t \in Threads :
        ( /\ th[t].op = "predict" /\ th[t].pc = "ret" /\ th[t].status = 200
          /\ "power_kW" \in DOMAIN sensor_data
          /\ IsNum(sensor_data.power_kW)
          /\ sensor_data.power_kW.v >= 0 )
        => th[t].ret.predicted_usage_kW <= SafetyCeiling(sensor_data.power_kW.v)

(* C2: with a credential, get_temperature returns without a fetch only     *)
(* when an entry exists and current_time - fetched_at < cache_timeout, and  *)
(* then returns that entry; an absent or older entry is never returned      *)
(* without a fetch attempt.                                                 *)
C2_CachedOnlyWhileFresh ==
    \A t \in Threads :
        (GTReturned(t) /\ api_key) =>
            /\ th[t].fetches = 0 =>
                 /\ th[t].pre.cached_data # VNone
                 /\ Age(t) < cache_timeout
                 /\ th[t].temperature = th[t].pre.cached_data
            /\ (th[t].pre.cached_data = VNone \/ Age(t) >= cache_timeout) =>
                 th[t].fetches >= 1

C2_Witness ==
    \E t \in Threads :
        /\ GTReturned(t) /\ api_key /\ th[t].fetches = 0
        /\ IsNum(th[t].pre.cached_data)
        /\ Age(t) = cache_timeout - TickStep

(* C3: once a numeric temperature v is stored, every get_temperature call  *)
(* that starts less than cache_timeout after its timestamp returns v and    *)
(* performs no fetch, whatever v is.                                        *)
C3_FreshEntryServed ==
    \A t \in Threads :
        (GTReturned(t) /\ api_key /\ IsNum(th[t].pre.cached_data)
         /\ Age(t) < cache_timeout) =>
            /\ th[t].temperature = th[t].pre.cached_data
            /\ th[t].fetches = 0

(* C4: a get_temperature call that finds the entry absent or at least      *)
(* cache_timeout old makes exactly one fetch; when the provider answers     *)
(* with a temperature, the call stores it with the call's own timestamp     *)
(* and returns it.                                                          *)
C4_StaleFetchesOnceAndStores ==
    \A t \in Threads :
        (GTReturned(t) /\ api_key
         /\ (th[t].pre.cached_data = VNone \/ Age(t) >= cache_timeout)) =>
            /\ th[t].fetches = 1
            /\ th[t].outcome = "fetched" =>
                 /\ th[t].temperature = th[t].temp_celsius
                 /\ cached_data = th[t].temp_celsius
                 /\ last_fetch = th[t].current_time

C4_Witness ==
    \E t \in Threads :
        /\ GTReturned(t) /\ api_key /\ th[t].outcome = "fetched"
        /\ IsNum(th[t].pre.cached_data) /\ Age(t) >= cache_timeout
        /\ th[t].temp_celsius # th[t].pre.cached_data

(* C5: when the fetch of a get_temperature call fails in any way, the call *)
(* returns 22.0 and the cache (value and fetched_at) is as before the call. *)
C5_FailureLeavesCache ==
    \A t \in Threads :
        (GTReturned(t) /\ api_key /\ th[t].fetches >= 1
         /\ th[t].outcome \in FailureOutcomes) =>
            /\ th[t].temperature = VNum(DefaultTemp)
            /\ cached_data = th[t].pre.cached_data
            /\ last_fetch = th[t].pre.last_fetch

(* C6: without a credential get_temperature returns 22.0 and               *)
(* get_full_reading returns temperature 22.0, description "Clear" and an    *)
(* error; no fetch is ever in flight and the cache stays as constructed,    *)
(* whatever set_city calls were made.                                       *)
C6_NoCredentialDefaults ==
    ~api_key =>
        /\ cached_data = VNone
        /\ last_fetch = 0
        /\ \A t \in Threads :
             /\ th[t].pc \notin {"gt_fetch", "gt_wait", "gwi_wait"}
             /\ th[t].fetches = 0
             /\ GTReturned(t) => th[t].temperature = VNum(DefaultTemp)
             /\ (th[t].op = "get_weather_info" /\ th[t].pc = "ret") =>
                  /\ th[t].ret.temperature = VNum(DefaultTemp)
                  /\ th[t].ret.description = "Clear"
                  /\ th[t].ret.error # "null"

C6_Witness ==
    \E t \in Threads :
        /\ ~api_key /\ city # DefaultCity
        /\ GTReturned(t) /\ th[t].op = "get_temperature"

(* C7: get_temperature and get_full_reading never raise; each returns a    *)
(* numeric temperature, and on every failure outcome the temperature is     *)
(* 22.0, get_full_reading also carrying "Unknown" and the error message.    *)
C7_NeverRaisesAndDefaults ==
    \A t \in Threads :
        /\ (th[t].op \in {"get_temperature", "get_weather_info"} /\ th[t].pc = "ret") =>
             th[t].status = 200
        /\ GTReturned(t) =>
             /\ IsNum(th[t].temperature)
             /\ th[t].outcome \in FailureOutcomes => th[t].temperature = VNum(DefaultTemp)
        /\ (th[t].op = "get_weather_info" /\ th[t].pc = "ret") =>
             /\ IsNum(th[t].ret.temperature)
             /\ th[t].outcome \in FailureOutcomes =>
                  /\ th[t].ret.temperature = VNum(DefaultTemp)
                  /\ th[t].ret.description = "Unknown"
                  /\ th[t].ret.error # "null"

(* C8: with a credential every get_full_reading call makes one fetch,      *)
(* however fresh the cache entry is, and leaves the cached value and        *)
(* fetched_at as they were, on success and on failure.                      *)
C8_FullReadingNotCached ==
    \A t \in Threads :
        (th[t].op = "get_weather_info" /\ api_key) =>
            /\ th[t].fetches = 1
            /\ cached_data = th[t].pre.cached_data
            /\ last_fetch = th[t].pre.last_fetch
            /\ (th[t].pc = "ret" /\ th[t].outcome = "fetched") => th[t].ret.error = "null"

C8_Witness ==
    \E t \in Threads :
        /\ th[t].op = "get_weather_info" /\ th[t].pc = "ret" /\ api_key
        /\ th[t].outcome = "fetched"
        /\ Truthy(cached_data) /\ IsNum(cached_data)
        /\ CacheFresh(now, last_fetch)
        /\ th[t].ret.temperature # cached_data

(* C9: a successful set_city(c) changes only the configured city; every    *)
(* fetch started afterwards queries c; the cache entry is unchanged, so a   *)
(* get_temperature call less than cache_timeout after the last store still  *)
(* returns the temperature cached for the previous city, without a fetch.   *)
C9_SetCityKeepsCache ==
    \A t \in Threads :
        /\ (th[t].op = "set_city" /\ th[t].pc = "ret" /\ th[t].status = 200) =>
             /\ city = th[t].ret.city
             /\ cached_data = th[t].pre.cached_data
             /\ last_fetch = th[t].pre.last_fetch
             /\ sensor_data = th[t].pre.sensor_data
        /\ th[t].pc \in {"gt_wait", "gwi_wait"} => th[t].q = city
        /\ (GTReturned(t) /\ api_key /\ IsNum(th[t].pre.cached_data)
            /\ th[t].pre.cache_city # th[t].pre.city
            /\ Age(t) < cache_timeout) =>
             /\ th[t].temperature = th[t].pre.cached_data
             /\ th[t].fetches = 0

IsBlank(s) == \A i \in 1..Len(s) : s[i] = " "

(* C10: /set_city with a missing, empty or whitespace-only city answers    *)
(* 400 and leaves the city, the weather cache and the snapshot unchanged;   *)
(* with any other city it answers ok and the configured city is the city    *)
(* returned.                                                                *)
C10_SetCityValidation ==
    \A t \in Threads :
        (th[t].op = "set_city" /\ th[t].pc = "ret") =>
            IF ~th[t].body.present \/ IsBlank(th[t].body.s)
            THEN /\ th[t].status = 400
                 /\ city = th[t].pre.city
                 /\ cached_data = th[t].pre.cached_data
                 /\ last_fetch = th[t].pre.last_fetch
                 /\ sensor_data = th[t].pre.sensor_data
            ELSE /\ th[t].status = 200
                 /\ th[t].ret.status = "ok"
                 /\ city = th[t].ret.city
                 /\ ~IsBlank(city)

C10_Witness ==
    \E t \in Threads :
        /\ th[t].op = "set_city" /\ th[t].pc = "ret" /\ th[t].status = 400
        /\ th[t].body.present /\ th[t].body.s = <<" ">>
        /\ city # DefaultCity
        /\ cached_data # VNone

(* C11: /current_status returns exactly the body of the most recent        *)
(* /sensor_update, with no field of an earlier snapshot and omitted fields  *)
(* absent, and the initial snapshot when no update has occurred.            *)
C11_ReadReturnsLatestUpdate ==
    \A t \in Threads :
        (th[t].op = "current_status" /\ th[t].pc = "ret") =>
            /\ th[t].status = 200
            /\ th[t].ret.snapshot = IF last_update = NoRet THEN InitialSnapshot
                                    ELSE last_update

C11_Witness ==
    \E t \in Threads :
        /\ th[t].op = "current_status" /\ th[t].pc = "ret"
        /\ last_update # NoRet
        /\ DOMAIN th[t].ret.snapshot = {"power_kW"}

(* C12: under any interleaving of /sensor_update and /current_status       *)
(* requests every read returns one whole snapshot, the initial one or the   *)
(* complete body of a single update, never fields of two snapshots.         *)
C12_ReadsAreWhole ==
    \A t \in Threads :
        (th[t].op = "current_status" /\ th[t].pc = "ret") =>
            th[t].ret.snapshot \in SensorBodies \cup {InitialSnapshot}

C12_Witness ==
    \E t, u \in Threads :
        /\ th[t].op = "current_status" /\ th[t].pc = "ret"
        /\ th[u].op = "sensor_update" /\ th[u].pc = "ret"
        /\ th[t].ret.snapshot # sensor_data
        /\ th[t].ret.snapshot # InitialSnapshot
        /\ DOMAIN th[t].ret.snapshot # DOMAIN sensor_data

(* C13: for every combination of the two artifacts being absent, corrupt   *)
(* or loadable, startup completes and selects the real artifact if it       *)
(* loads, otherwise the synthetic artifact if it loads, otherwise the       *)
(* rule-based variant.                                                      *)
C13_StartupSelection ==
    /\ phase = "boot" => ENABLED Startup
    /\ phase = "serving" =>
         /\ artifacts["real"] = "ok" =>
              trained_model = "real" /\ model_type = "real"
         /\ (artifacts["real"] # "ok" /\ artifacts["synthetic"] = "ok") =>
              trained_model = "synthetic" /\ model_type = "synthetic"
         /\ (artifacts["real"] # "ok" /\ artifacts["synthetic"] # "ok") =>
              trained_model = "none" /\ model_type = "rule-based"

C13_Witness ==
    /\ phase = "serving"
    /\ artifacts["real"] = "corrupt"
    /\ artifacts["synthetic"] = "ok"
    /\ model_type = "synthetic"

(* C14: once the service is serving, the selected variant and its tag      *)
(* never change, and every answered /predict carries the tag of the         *)
(* variant that computed it, "rule-based" exactly when no trained model is  *)
(* loaded.                                                                  *)
C14_VariantFixedAndTagged ==
    /\ [][phase = "serving" =>
            (model_type' = model_type /\ trained_model' = trained_model)]_vars
    /\ [](\A t \in Threads :
            (th[t].op = "predict" /\ th[t].pc = "ret" /\ th[t].status = 200) =>
                /\ th[t].ret.model_type = model_type
                /\ th[t].ret.model_type = "rule-based" <=> trained_model = "none"
                /\ trained_model # "none" =>
                     /\ th[t].ret.model_type = trained_model
                     /\ \E p \in RawPredictions :
                          th[t].ret.predicted_usage_kW = Round(p, 10)
                /\ trained_model = "none" =>
                     th[t].ret.predicted_usage_kW =
                        Round(rule_based_predict(th[t].body.data.hour.v,
                                                 th[t].temperature.v,
                                                 th[t].body.data.occupancy.v,
                                                 th[t].body.data.is_weekend.v), 10))

C14_Witness ==
    \E t \in Threads :
        /\ th[t].op = "predict" /\ th[t].pc = "ret" /\ th[t].status = 200
        /\ trained_model = "synthetic"
        /\ th[t].ret.model_type = "synthetic"
        /\ city # DefaultCity
        /\ sensor_data # InitialSnapshot

(* a /predict body without one of the required keys *)
LacksRequired(b) == b.hour = VNone \/ b.occupancy = VNone \/ b.is_weekend = VNone

(* C15: a /predict request whose body lacks hour, occupancy or is_weekend   *)
(* is answered with a 4xx status, makes no weather fetch and leaves the     *)
(* sensor snapshot, the configured city and the weather cache unchanged.    *)
C15_MissingFieldIsClientError ==
    \A t \in Threads :
        (th[t].op = "predict" /\ th[t].pc = "ret" /\ LacksRequired(th[t].body.data)) =>
            /\ th[t].status \in 400..499
            /\ th[t].fetches = 0
            /\ Pre = th[t].pre

(* C16: a /predict request that supplies temperature (0 included) does not  *)
(* consult the weather client (no fetch, cache unchanged) and reports the   *)
(* supplied value as temperature_used; one without temperature reports the  *)
(* value get_temperature returns, which is 22.0 when no provider key is     *)
(* configured. temperature_used is compared as the response reports it, to  *)
(* one decimal place.                                                       *)
C16_TemperatureResolution ==
    \A t \in Threads :
        (th[t].op = "predict" /\ th[t].pc = "ret"
         /\ ~LacksRequired(th[t].body.data)) =>
            /\ th[t].status = 200
            /\ IF th[t].body.data.temperature # VNone
               THEN /\ th[t].fetches = 0
                    /\ Pre = th[t].pre
                    /\ th[t].ret.temperature_used =
                          Round(th[t].body.data.temperature.v, 10)
               ELSE /\ IsNum(th[t].temperature)
                    /\ th[t].ret.temperature_used = Round(th[t].temperature.v, 10)
                    /\ ~api_key => th[t].ret.temperature_used = DefaultTemp

(* C17: for every hour 0..23, temperature, occupancy and is_weekend the     *)
(* dashboard's client-side fallback computes the same value as the          *)
(* backend's rule_based_predict.                                            *)
C17_FallbackEqualsBackend ==
    calc.done => calc.dashboard = calc.backend

C17_Witness ==
    /\ calc.done
    /\ calc.hour = 15 /\ calc.temperature = 2504 /\ calc.occupancy = 150
    /\ calc.is_weekend = 2
    /\ calc.dashboard = calc.backend
    /\ calc.dashboard # calc.backend_weekday

(* the weekend uplift as the caller computes it, in floats *)
Uplift == FRound(calc.backend_weekend - calc.backend_weekday)

C20_CachePairedAndMonotonic ==
    /\ [](((\A t \in Threads : th[t].pc # "gt_l49") /\ IsNum(cached_data)) =>
              val_stamp = last_fetch)
    /\ [][last_fetch' >= last_fetch]_vars
    /\ [](\A t \in Threads :
             (GTReturned(t) /\ th[t].outcome = "cached") =>
                 th[t].current_time - val_stamp <= cache_timeout)

(* C21: in the dashboard, for every power reading obtained from             *)
(* /current_status and every prediction (backend response or client-side    *)
(* fallback), the shown predicted usage is at most                          *)
(* max(current_usage - buffer, 0) with 10 <= buffer <= 60, and the shown    *)
(* delta (predicted - current) is <= 0.                                     *)
C21_DashboardDeltaNonPositive ==
    dash.pc = "shown" =>
        /\ dash.buffer_kW >= 10000 /\ dash.buffer_kW <= 60000
        /\ dash.pred_usage <= Max(dash.current_usage - dash.buffer_kW, 0)
        /\ dash.delta = dash.pred_usage - dash.current_usage
        /\ dash.delta <= 0

====
